---------------------------- MODULE Spec2Model ----------------------------
(***************************************************************************)
(* Model of the TodoList component of src/src/pages/index.tsx (the first   *)
(* definition of the component, lines 1-300): the React state it declares, *)
(* its two effects (load on mount, save on every change of `todos`), and   *)
(* its event handlers.                                                     *)
(*                                                                         *)
(* React's scheduling of the mount is explicit in `pc`: both effects run,   *)
(* in source order, with the values of the first render, and the list the  *)
(* load effect sets is rendered (and saved) only after them.  An event     *)
(* handler is one step: React re-renders and runs the save effect before   *)
(* it delivers the next event.                                             *)
(***************************************************************************)
EXTENDS Integers, Sequences, FiniteSets, TLC

VARIABLES
    todos,       \* the list the latest render (its handlers and effects) sees
    queued,      \* <<l>> when the load effect called setTodos(l), until rendered
    storage,     \* the value of localStorage under the key 'todos'
    pc,          \* where React is: mount, mountSave, render, effect, idle
    inputValue,  \* the text of the "add" input
    filter,      \* all | active | completed
    editingId,   \* id of the task in edit mode, or Null
    editText,    \* the text of the edit input
    clock,       \* the wall clock, in ms
    consoleErrors \* number of console.error calls so far

vars == <<todos, queued, storage, pc, inputValue, filter, editingId,
          editText, clock, consoleErrors>>

(***************************************************************************)
(* Bounds of the model.                                                    *)
(***************************************************************************)
MaxTodos == 2

MaxTicks == 1

FirstReading == 999

(***************************************************************************)
(* Strings are sequences of one-character strings.                         *)
(***************************************************************************)
EmptyString == << >>

Null == <<"null">>

IsWhitespace(c) == c = " "

RECURSIVE TrimStart(_)
TrimStart(s) ==
    IF s # << >> /\ IsWhitespace(Head(s)) THEN TrimStart(Tail(s)) ELSE s

RECURSIVE TrimEnd(_)
TrimEnd(s) ==
    IF s # << >> /\ IsWhitespace(s[Len(s)])
    THEN TrimEnd(SubSeq(s, 1, Len(s) - 1))
    ELSE s

Trim(s) == TrimEnd(TrimStart(s))

Digits == <<"0", "1", "2", "3", "4", "5", "6", "7", "8", "9">>

RECURSIVE NumberToString(_)
NumberToString(n) ==
    IF n < 10 THEN <<Digits[n + 1]>>
    ELSE Append(NumberToString(n \div 10), Digits[(n % 10) + 1])

(***************************************************************************)
(* Dates.  A Date is its time value in ms, or InvalidDate (NaN).  A stored *)
(* date is what JSON holds for it: the ISO-8601 text (split here into its  *)
(* seconds and its three millisecond digits), null, or some other string.  *)
(***************************************************************************)
InvalidDate == -1

MsPerSecond == 1000

JsonNull == [k |-> "null", sec |-> 0, ms |-> 0]

NotADate == [k |-> "string", sec |-> 0, ms |-> 0]

\* a save that keeps whole seconds only
DateToJSONSeconds(d) ==
    IF d = InvalidDate THEN JsonNull
    ELSE [k |-> "iso", sec |-> d \div MsPerSecond, ms |-> 0]

DateToJSON(d) ==
    IF d = InvalidDate THEN JsonNull
    ELSE [k |-> "iso", sec |-> d \div MsPerSecond, ms |-> d % MsPerSecond]

NewDate(v) ==
    CASE v.k = "iso"    -> v.sec * MsPerSecond + v.ms
      [] v.k = "null"   -> 0
      [] OTHER          -> InvalidDate


(***************************************************************************)
(* JSON.  The stored value is kept as what JSON.parse makes of it, not as  *)
(* its characters: absent (getItem returns null), the empty string, a text *)
(* that is no JSON, or a JSON value that is an array (of items) or not.    *)
(* An item is an object with the four fields of a Todo, or null.           *)
(***************************************************************************)
Absent == [kind |-> "absent", isArray |-> FALSE, items |-> << >>]

EmptyText == [kind |-> "empty", isArray |-> FALSE, items |-> << >>]

NotJson == [kind |-> "text", isArray |-> FALSE, items |-> << >>]

JsonNotArray == [kind |-> "json", isArray |-> FALSE, items |-> << >>]

JsonArray(items) == [kind |-> "json", isArray |-> TRUE, items |-> items]

NullItem ==
    [k |-> "null", id |-> EmptyString, text |-> EmptyString,
     completed |-> FALSE, createdAt |-> JsonNull]

TodoToJSON(todo) ==
    [k |-> "object", id |-> todo.id, text |-> todo.text,
     completed |-> todo.completed, createdAt |-> DateToJSON(todo.createdAt)]

JSONStringify(l) == JsonArray([i \in 1..Len(l) |-> TodoToJSON(l[i])])

\* { ...todo, createdAt: new Date(todo.createdAt) }
TodoWithDate(item) ==
    [id |-> item.id, text |-> item.text, completed |-> item.completed,
     createdAt |-> NewDate(item.createdAt)]

\* a try block that covers JSON.parse alone
ParseThrowsSyntaxOnly(saved) == saved.kind = "text"

\* JSON.parse(savedTodos) or the .map over its result throws
ParseThrows(saved) ==
    \/ saved.kind = "text"
    \/ saved.kind = "json" /\ ~saved.isArray
    \/ saved.kind = "json" /\ saved.isArray
         /\ \E i \in 1..Len(saved.items) : saved.items[i].k = "null"

TodosWithDates(saved) ==
    [i \in 1..Len(saved.items) |-> TodoWithDate(saved.items[i])]

\* if (savedTodos): null and '' are falsy
IsTruthy(saved) == saved.kind \notin {"absent", "empty"}

(***************************************************************************)
(* The list expressions of the handlers and of the render.                 *)
(***************************************************************************)
\* appends instead of prepending
PrependAtEnd(newTodo, l) == l \o <<newTodo>>

\* [newTodo, ...todos]
Prepend(newTodo, l) == <<newTodo>> \o l

NewTodo(value, now, created) ==
    [id |-> NumberToString(now), text |-> Trim(value), completed |-> FALSE,
     createdAt |-> created]

\* marks as completed instead of flipping
ToggleMapSetsTrue(l, id) ==
    [i \in 1..Len(l) |->
        IF l[i].id = id THEN [l[i] EXCEPT !.completed = TRUE] ELSE l[i]]

\* todos.map(todo => todo.id === id ? {...todo, completed: !todo.completed} : todo)
ToggleMap(l, id) ==
    [i \in 1..Len(l) |->
        IF l[i].id = id THEN [l[i] EXCEPT !.completed = ~l[i].completed]
        ELSE l[i]]

RECURSIVE FilterSeq(_, _)
FilterSeq(l, keep) ==
    IF l = << >> THEN << >>
    ELSE IF Head(l) \in keep THEN <<Head(l)>> \o FilterSeq(Tail(l), keep)
         ELSE FilterSeq(Tail(l), keep)

Elements(l) == {l[i] : i \in 1..Len(l)}

\* keeps the completed tasks instead of the active ones
ClearFilterInverted(l) == FilterSeq(l, {t \in Elements(l) : t.completed})

\* stores the edit text untrimmed
EditMapUntrimmed(l, id, value) ==
    [i \in 1..Len(l) |->
        IF l[i].id = id THEN [l[i] EXCEPT !.text = value] ELSE l[i]]

\* todos.filter(todo => todo.id !== id)
DeleteFilter(l, id) == FilterSeq(l, {t \in Elements(l) : t.id # id})

\* todos.filter(todo => !todo.completed)
ClearFilter(l) == FilterSeq(l, {t \in Elements(l) : ~t.completed})

\* todos.map(todo => todo.id === editingId ? {...todo, text: editText.trim()} : todo)
EditMap(l, id, value) ==
    [i \in 1..Len(l) |->
        IF l[i].id = id THEN [l[i] EXCEPT !.text = Trim(value)] ELSE l[i]]

FilteredTodos(l, f) ==
    FilterSeq(l, {t \in Elements(l) :
                    CASE f = "active"    -> ~t.completed
                      [] f = "completed" -> t.completed
                      [] OTHER           -> TRUE})

ItemsLeft(l) == Len(FilterSeq(l, {t \in Elements(l) : ~t.completed}))

(***************************************************************************)
(* What the user can type, and what an earlier session (or anything else   *)
(* that writes the key) may have left in the slot.                         *)
(***************************************************************************)
TypedTexts == { <<" ">>, <<" ", "a", " ">> }

Filters == {"all", "active", "completed"}

SavedDone ==
    [id |-> <<"9", "9", "7">>, text |-> <<"b", " ", "c">>, completed |-> TRUE,
     createdAt |-> 997]

SavedOpen ==
    [id |-> <<"9", "9", "8">>, text |-> <<"b">>,
     completed |-> FALSE, createdAt |-> 998]

WellFormedSlots ==
    { JSONStringify(<< >>), JSONStringify(<<SavedDone>>) }

\* an array whose one record holds a createdAt that is no date
BadDateSlot ==
    JsonArray(<<[TodoToJSON(SavedOpen) EXCEPT !.createdAt = NotADate]>>)

MalformedSlots ==
    { NotJson, JsonNotArray, JsonArray(<<NullItem>>), BadDateSlot }

InitialSlots == {Absent, EmptyText} \cup MalformedSlots \cup WellFormedSlots

MaxClock == FirstReading + MaxTicks

(***************************************************************************)
(* The state after the first render: the useState initial values, with     *)
(* the two mount effects still to run.                                     *)
(***************************************************************************)
Init ==
    /\ todos = << >>
    /\ queued = << >>
    /\ storage \in InitialSlots
    /\ pc = "mount"
    /\ inputValue = EmptyString
    /\ filter = "all"
    /\ editingId = Null
    /\ editText = EmptyString
    /\ clock = FirstReading
    /\ consoleErrors = 0

\* a save effect that does not run again after a change of `todos`
SetTodosUnsaved(l) ==
    /\ todos' = l
    /\ UNCHANGED <<storage, queued, pc>>

\* setTodos(l) in an event handler: React re-renders with the new array and,
\* `todos` being another array than before, runs the save effect on it, all
\* before the next event is delivered
SetTodos(l) ==
    /\ todos' = l
    /\ storage' = JSONStringify(l)
    /\ UNCHANGED <<queued, pc>>

(***************************************************************************)
(* The effects.                                                            *)
(***************************************************************************)
\* useEffect(() => {...}, []): runs once, first of the mount effects
LoadEffect ==
    /\ pc = "mount"
    /\ pc' = "mountSave"
    /\ IF IsTruthy(storage)
       THEN IF ParseThrows(storage)
            THEN /\ consoleErrors' = consoleErrors + 1
                 /\ UNCHANGED queued
            ELSE \* setTodos inside an effect: rendered after the effects
                 /\ queued' = <<TodosWithDates(storage)>>
                 /\ UNCHANGED consoleErrors
       ELSE UNCHANGED <<queued, consoleErrors>>
    /\ UNCHANGED <<todos, storage, inputValue, filter, editingId, editText,
                   clock>>

\* useEffect(() => {...}, [todos]) during the mount: it runs after the
\* first render, then after the re-render the load effect's setTodos causes;
\* each time it sees the `todos` of the render it belongs to
SaveEffect ==
    /\ pc \in {"mountSave", "effect"}
    /\ storage' = JSONStringify(todos)
    /\ pc' = IF queued # << >> THEN "render" ELSE "idle"
    /\ UNCHANGED <<todos, queued, inputValue, filter, editingId, editText,
                   clock, consoleErrors>>

\* the re-render that the setTodos of the load effect causes
Render ==
    /\ pc = "render"
    /\ todos' = queued[1]
    /\ queued' = << >>
    /\ pc' = "effect"
    /\ UNCHANGED <<storage, inputValue, filter, editingId, editText, clock,
                   consoleErrors>>

(***************************************************************************)
(* The event handlers.  Events are delivered when React is idle.           *)
(***************************************************************************)
Shown == Elements(FilteredTodos(todos, filter))

\* the edit input is rendered in the row of the task being edited
EditRowShown == \E todo \in Shown : todo.id = editingId

SetInputValue(value) ==
    /\ pc = "idle"
    /\ inputValue' = value
    /\ UNCHANGED <<todos, queued, storage, pc, filter, editingId, editText,
                   clock, consoleErrors>>

SetFilter(f) ==
    /\ pc = "idle"
    /\ filter' = f
    /\ UNCHANGED <<todos, queued, storage, pc, inputValue, editingId,
                   editText, clock, consoleErrors>>

\* Date.now() for the id, then new Date() for createdAt: two readings
AddTodo ==
    /\ pc = "idle"
    /\ IF Trim(inputValue) = EmptyString
       THEN UNCHANGED vars
       ELSE /\ Len(todos) < MaxTodos
            /\ \E created \in clock..(IF clock < MaxClock THEN clock + 1
                                                            ELSE clock) :
                 /\ SetTodos(Prepend(NewTodo(inputValue, clock, created),
                                     todos))
                 /\ clock' = created
            /\ inputValue' = EmptyString
            /\ UNCHANGED <<filter, editingId, editText, consoleErrors>>

ToggleTodo(id) ==
    /\ pc = "idle"
    /\ SetTodos(ToggleMap(todos, id))
    /\ UNCHANGED <<inputValue, filter, editingId, editText,
                   clock, consoleErrors>>

DeleteTodo(id) ==
    /\ pc = "idle"
    /\ SetTodos(DeleteFilter(todos, id))
    /\ UNCHANGED <<inputValue, filter, editingId, editText,
                   clock, consoleErrors>>

ClearCompleted ==
    /\ pc = "idle"
    /\ SetTodos(ClearFilter(todos))
    /\ UNCHANGED <<inputValue, filter, editingId, editText,
                   clock, consoleErrors>>

StartEditing(todo) ==
    /\ pc = "idle"
    /\ editingId' = todo.id
    /\ editText' = todo.text
    /\ UNCHANGED <<todos, queued, storage, pc, inputValue, filter, clock,
                   consoleErrors>>

SetEditText(value) ==
    /\ pc = "idle"
    /\ EditRowShown
    /\ editText' = value
    /\ UNCHANGED <<todos, queued, storage, pc, inputValue, filter, editingId,
                   clock, consoleErrors>>

\* if (editingId && editText.trim())
SaveEdit ==
    /\ pc = "idle"
    /\ EditRowShown
    /\ IF editingId \notin {Null, EmptyString} /\ Trim(editText) # EmptyString
       THEN /\ SetTodos(EditMap(todos, editingId, editText))
            /\ editingId' = Null
            /\ editText' = EmptyString
            /\ UNCHANGED <<inputValue, filter, clock, consoleErrors>>
       ELSE UNCHANGED vars

CancelEdit ==
    /\ pc = "idle"
    /\ EditRowShown
    /\ editingId' = Null
    /\ editText' = EmptyString
    /\ UNCHANGED <<todos, queued, storage, pc, inputValue, filter, clock,
                   consoleErrors>>

\* the wall clock advances between events
Tick ==
    /\ pc = "idle"
    /\ clock < MaxClock
    /\ clock' = clock + 1
    /\ UNCHANGED <<todos, queued, storage, pc, inputValue, filter, editingId,
                   editText, consoleErrors>>

Next ==
    \/ LoadEffect
    \/ SaveEffect
    \/ Render
    \/ \E value \in TypedTexts : SetInputValue(value)
    \/ \E f \in Filters : SetFilter(f)
    \/ AddTodo
    \/ \E todo \in Shown : ToggleTodo(todo.id)
    \/ \E todo \in Shown : DeleteTodo(todo.id)
    \/ ClearCompleted
    \/ \E todo \in Shown : StartEditing(todo)
    \/ \E value \in TypedTexts : SetEditText(value)
    \/ SaveEdit
    \/ CancelEdit
    \/ Tick

Spec == Init /\ [][Next]_vars

(***************************************************************************)
(* Properties.                                                             *)
(***************************************************************************)
Ids(l) == {l[i].id : i \in 1..Len(l)}

\* every id the model can hand to a handler, present in the list or not
AllIds == {NumberToString(n) : n \in (FirstReading - 2)..MaxClock}

\* the list holds tasks as the component creates them: real dates
ValidDates(l) == \A i \in 1..Len(l) : l[i].createdAt # InvalidDate

\* created by addTodo in this session
AddedHere(t) == t.createdAt >= FirstReading

\* C1: whenever React is idle (the mount is over, and every handler's save
\* effect has run) the slot holds the serialization of the whole current list.
C1_SlotHoldsCurrentList ==
    pc = "idle" => storage = JSONStringify(todos)

C1_Witness ==
    /\ pc = "idle"
    /\ Len(todos) = 2
    /\ AddedHere(todos[1]) /\ todos[1].completed
    /\ storage = JSONStringify(todos)

\* C2: serializing a list of tasks and running the load on the result gives
\* the same list back: the load does not skip, does not throw, and the list
\* it sets is equal, element by element and in order.
C2_RoundTrip ==
    ValidDates(todos) =>
        /\ IsTruthy(JSONStringify(todos))
        /\ ~ParseThrows(JSONStringify(todos))
        /\ TodosWithDates(JSONStringify(todos)) = todos

C2_Witness ==
    /\ pc = "idle"
    /\ Len(todos) = 2
    /\ AddedHere(todos[1]) /\ ~AddedHere(todos[2])
    /\ todos[1].createdAt % MsPerSecond # 0
    /\ TodosWithDates(storage) = todos

\* C3 (as stated): the ids of the tasks in the list are pairwise distinct.
C3_IdsPairwiseDistinct ==
    \A i, j \in 1..Len(todos) : i # j => todos[i].id # todos[j].id

C5_AddPrependsTrimmed ==
    [][AddTodo =>
        IF Trim(inputValue) = EmptyString
        THEN todos' = todos /\ storage' = storage
        ELSE /\ Len(todos') = Len(todos) + 1
             /\ todos'[1].text = Trim(inputValue)
             /\ todos'[1].text # EmptyString
             /\ todos'[1].completed = FALSE
             /\ \A i \in 1..Len(todos) : todos'[i + 1] = todos[i]]_vars

C5_Witness ==
    /\ pc = "idle"
    /\ Len(todos) = 2
    /\ AddedHere(todos[1]) /\ todos[1].text = <<"a">> /\ ~todos[1].completed
    /\ todos[2] = SavedDone
    /\ inputValue = EmptyString

C8_DeleteRemovesExactlyOne ==
    [][\A todo \in Shown :
         DeleteTodo(todo.id) =>
             /\ Len(todos') = Len(todos) - 1
             /\ \E k \in 1..Len(todos) :
                  /\ todos[k].id = todo.id
                  /\ \A i \in 1..Len(todos') :
                       todos'[i] = IF i < k THEN todos[i] ELSE todos[i + 1]
             /\ DeleteFilter(todos', todo.id) = todos']_vars

\* C9: clearCompleted leaves exactly what filter 'active' showed before it,
\* after it filter 'completed' shows nothing and the number of items left is
\* the same; changing the filter changes neither the list nor the slot.
C9_ClearCompletedKeepsActive ==
    [][/\ ClearCompleted =>
            /\ todos' = FilteredTodos(todos, "active")
            /\ \A i \in 1..Len(todos') : ~todos'[i].completed
            /\ FilteredTodos(todos', "completed") = << >>
            /\ ItemsLeft(todos') = ItemsLeft(todos)
            /\ Len(todos') = ItemsLeft(todos)
       /\ \A f \in Filters :
            SetFilter(f) => todos' = todos /\ storage' = storage]_vars

C9_Witness ==
    /\ pc = "idle"
    /\ filter = "active"
    /\ Len(todos) = 1
    /\ AddedHere(todos[1]) /\ ~todos[1].completed
    /\ ItemsLeft(todos) = 1
    /\ consoleErrors = 0

\* C10 (as stated): when the slot holds a well-formed non-empty list at the
\* mount, it holds the serialization of that list at every step of the
\* mount: after the load effect, after the first save effect, after the
\* re-render, after the second save effect.
C10_MountKeepsSlot ==
    /\ (pc \in {"mountSave", "render"} /\ queued # << >>
          /\ queued[1] # << >> /\ ValidDates(queued[1]))
         => storage = JSONStringify(queued[1])
    /\ (pc = "effect" /\ todos # << >> /\ ValidDates(todos))
         => storage = JSONStringify(todos)

\* C11 (as stated): the edit target is valid: whenever editingId is not null
\* it is the id of a task of the current list.
C11_EditTargetInList ==
    editingId # Null => editingId \in Ids(todos)

=============================================================================
